---- MODULE Spec2Model ----
(***************************************************************************)
(* Night-mode toggle of the Virology site: the generic page script         *)
(* (scripts.js) and the theme-extension script                             *)
(* (_extensions/custom-theme/scripts.js) running on one page.              *)
(*                                                                         *)
(* The page is one single-threaded event loop.  Its tasks are: a script    *)
(* executing, the parser finishing, the DOMContentLoaded dispatch (one     *)
(* listener after the other, nothing in between), a click or a hover on a  *)
(* control, and a timer firing.                                            *)
(***************************************************************************)
EXTENDS Integers, Sequences, FiniteSets

\* Bounds of the model.
MaxLoads  == 3      \* script executions on the page
MaxClicks == 4      \* clicks on the controls

\* Names of the two scripts.
Generic == "generic"
Theme   == "theme"

\* Values written by the scripts.
ToggleId      == "night-mode-toggle"
Moon          == "moon"
Sun           == "sun"
TitleToggle   == "Toggle Night Mode"
TitleToLight  == "Switch to Light Mode"
TitleToNight  == "Switch to Night Mode"
ColorNormal   == "#007bff"
ColorHover    == "#0056b3"

VARIABLES
    readyState,   \* document.readyState
    dclFired,     \* DOMContentLoaded has been dispatched
    listeners,    \* DOMContentLoaded listeners, in registration order
    dispatch,     \* listeners the running dispatch has still to call
    controls,     \* the buttons appended to document.body, in document order
    nightMode,    \* document.body.classList.contains('night-mode')
    timers,       \* pending setTimeout callbacks (index of their toggleBtn)
    loaded,       \* the scripts executed so far, in order
    clicks,       \* number of clicks handled so far
    alreadyExists \* number of 'Button already exists' lines on the console

vars == <<readyState, dclFired, listeners, dispatch, controls, nightMode,
          timers, loaded, clicks, alreadyExists>>

----------------------------------------------------------------------------
\* DOM helpers

RECURSIVE FirstWithId(_, _, _)
FirstWithId(cs, id, i) ==
    IF i > Len(cs) THEN 0
    ELSE IF cs[i].id = id THEN i
    ELSE FirstWithId(cs, id, i + 1)

\* document.getElementById: the first element with the id, 0 for null.
getElementById(cs, id) == FirstWithId(cs, id, 1)

\* classList.toggle('night-mode')
ClassListToggle_Add(night) == TRUE
ClassListToggle(night) == ~night

----------------------------------------------------------------------------
\* The generic script

\* The button the DOMContentLoaded handler builds.
NewGenericButton ==
    [id |-> ToggleId, innerHTML |-> Moon, title |-> TitleToggle,
     background |-> ColorNormal, script |-> Generic]

\* The handler: builds the button and appends it, without any lookup.
GenericHandler(cs) == Append(cs, NewGenericButton)

\* The callback given to setTimeout, for the button at index i.
TimeoutCallback(cs, i, night) ==
    IF night
    THEN [cs EXCEPT ![i].innerHTML = Sun,  ![i].title = TitleToLight]
    ELSE [cs EXCEPT ![i].innerHTML = Moon, ![i].title = TitleToNight]

----------------------------------------------------------------------------
\* The theme-extension script

NewThemeButton_OtherId ==
    [id |-> "night-toggle", innerHTML |-> Moon, title |-> TitleToggle,
     background |-> ColorNormal, script |-> Theme]
NewThemeButton ==
    [id |-> ToggleId, innerHTML |-> Moon, title |-> TitleToggle,
     background |-> ColorNormal, script |-> Theme]

\* The guard of createToggle.
ToggleExists_Never(cs) == FALSE
ToggleExists(cs) == getElementById(cs, ToggleId) # 0

\* createToggle: the controls after the call.
createToggle(cs) == IF ToggleExists(cs) THEN cs ELSE Append(cs, NewThemeButton)

\* The console after the call.
createToggleLog(cs, n) == IF ToggleExists(cs) THEN n + 1 ELSE n

\* btn.onclick, for the button at index i, night being the class after
\* the toggle.
ThemeOnClick(cs, i, night) ==
    [cs EXCEPT ![i].innerHTML = IF night THEN Sun ELSE Moon]

----------------------------------------------------------------------------
Init ==
    /\ readyState = "loading"
    /\ dclFired = FALSE
    /\ listeners = <<>>
    /\ dispatch = <<>>
    /\ controls = <<>>
    /\ nightMode = FALSE
    /\ timers = <<>>
    /\ loaded = <<>>
    /\ clicks = 0
    /\ alreadyExists = 0

\* No task starts while the DOMContentLoaded dispatch is running.
Idle == dispatch = <<>>

\* The generic script executes: it only registers its listener.
LoadGeneric ==
    /\ Idle
    /\ Len(loaded) < MaxLoads
    /\ loaded' = Append(loaded, Generic)
    /\ listeners' = Append(listeners, Generic)
    /\ UNCHANGED <<readyState, dclFired, dispatch, controls, nightMode,
                   timers, clicks, alreadyExists>>

\* The theme script executes: the readyState dispatch.
LoadTheme ==
    /\ Idle
    /\ Len(loaded) < MaxLoads
    /\ loaded' = Append(loaded, Theme)
    /\ IF readyState = "loading"
       THEN /\ listeners' = Append(listeners, Theme)
            /\ UNCHANGED <<controls, alreadyExists>>
       ELSE /\ controls' = createToggle(controls)
            /\ alreadyExists' = createToggleLog(controls, alreadyExists)
            /\ UNCHANGED listeners
    /\ UNCHANGED <<readyState, dclFired, dispatch, nightMode, timers, clicks>>

\* The parser reaches the end of the document.
BecomeInteractive ==
    /\ Idle
    /\ readyState = "loading"
    /\ readyState' = "interactive"
    /\ UNCHANGED <<dclFired, listeners, dispatch, controls, nightMode,
                   timers, loaded, clicks, alreadyExists>>

\* The document-ready signal: the listeners registered so far are called.
FireDOMContentLoaded ==
    /\ Idle
    /\ readyState = "interactive"
    /\ ~dclFired
    /\ dclFired' = TRUE
    /\ dispatch' = listeners
    /\ UNCHANGED <<readyState, listeners, controls, nightMode, timers,
                   loaded, clicks, alreadyExists>>

\* The dispatch calls its next listener.
RunListener ==
    /\ dispatch # <<>>
    /\ dispatch' = Tail(dispatch)
    /\ IF Head(dispatch) = Generic
       THEN /\ controls' = GenericHandler(controls)
            /\ UNCHANGED alreadyExists
       ELSE /\ controls' = createToggle(controls)
            /\ alreadyExists' = createToggleLog(controls, alreadyExists)
    /\ UNCHANGED <<readyState, dclFired, listeners, nightMode, timers,
                   loaded, clicks>>

\* The page has finished loading.
BecomeComplete ==
    /\ Idle
    /\ readyState = "interactive"
    /\ dclFired
    /\ readyState' = "complete"
    /\ UNCHANGED <<dclFired, listeners, dispatch, controls, nightMode,
                   timers, loaded, clicks, alreadyExists>>

\* A click on the button at index i: the onclick of the script that made it.
Click(i) ==
    /\ Idle
    /\ i \in DOMAIN controls
    /\ clicks < MaxClicks
    /\ clicks' = clicks + 1
    /\ nightMode' = ClassListToggle(nightMode)
    /\ IF controls[i].script = Generic
       THEN /\ timers' = Append(timers, i)
            /\ UNCHANGED controls
       ELSE /\ controls' = ThemeOnClick(controls, i, nightMode')
            /\ UNCHANGED timers
    /\ UNCHANGED <<readyState, dclFired, listeners, dispatch, loaded,
                   alreadyExists>>

\* A delayed icon update fires (equal delays fire in the order they were set).
FireTimer_Toggles ==
    /\ Idle
    /\ timers # <<>>
    /\ timers' = Tail(timers)
    /\ nightMode' = ~nightMode
    /\ controls' = TimeoutCallback(controls, Head(timers), nightMode')
    /\ UNCHANGED <<readyState, dclFired, listeners, dispatch,
                   loaded, clicks, alreadyExists>>
FireTimer ==
    /\ Idle
    /\ timers # <<>>
    /\ timers' = Tail(timers)
    /\ controls' = TimeoutCallback(controls, Head(timers), nightMode)
    /\ UNCHANGED <<readyState, dclFired, listeners, dispatch, nightMode,
                   loaded, clicks, alreadyExists>>

\* The pointer enters the button at index i (only the generic script's
\* button has hover handlers).
MouseOver(i) ==
    /\ Idle
    /\ i \in DOMAIN controls
    /\ controls[i].script = Generic
    /\ controls[i].background = ColorNormal
    /\ controls' = [controls EXCEPT ![i].background = ColorHover]
    /\ UNCHANGED <<readyState, dclFired, listeners, dispatch, nightMode,
                   timers, loaded, clicks, alreadyExists>>

\* The pointer leaves the button at index i.
MouseOut(i) ==
    /\ Idle
    /\ i \in DOMAIN controls
    /\ controls[i].script = Generic
    /\ controls[i].background = ColorHover
    /\ controls' = [controls EXCEPT ![i].background = ColorNormal]
    /\ UNCHANGED <<readyState, dclFired, listeners, dispatch, nightMode,
                   timers, loaded, clicks, alreadyExists>>

Next ==
    \/ LoadGeneric
    \/ LoadTheme
    \/ BecomeInteractive
    \/ FireDOMContentLoaded
    \/ RunListener
    \/ BecomeComplete
    \/ \E i \in 1..MaxLoads : Click(i)
    \/ FireTimer
    \/ \E i \in 1..MaxLoads : MouseOver(i)
    \/ \E i \in 1..MaxLoads : MouseOut(i)

Spec == Init /\ [][Next]_vars

----------------------------------------------------------------------------
\* Vocabulary of the properties

\* The icon and the label that belong to a value of the marker class.
IconFor(night)  == IF night THEN Sun ELSE Moon
LabelFor(night) == IF night THEN TitleToLight ELSE TitleToNight

\* The elements of the document that carry the reserved identifier.
Toggles == {i \in DOMAIN controls : controls[i].id = ToggleId}

\* No delayed update is pending.
Settled == timers = <<>>

\* This step is a call of createToggle (directly from the script, or from
\* its DOMContentLoaded listener).
CallsCreateToggle ==
    \/ /\ dispatch # <<>>
       /\ Head(dispatch) = Theme
       /\ dispatch' = Tail(dispatch)
    \/ /\ readyState # "loading"
       /\ loaded' = Append(loaded, Theme)

----------------------------------------------------------------------------
\* C1: whatever mix of initializations of the two scripts has run, in
\* whatever order, the document holds at most one element with the id
\* 'night-mode-toggle'.
C1_AtMostOneToggle == Cardinality(Toggles) <= 1

\* C2: the marker class is absent after an even number of clicks and
\* present after an odd number, whatever delayed icon updates are pending
\* or have fired.
C2_ClickParity == nightMode <=> (clicks % 2 = 1)

\* Three clicks, one delayed update fired and two still pending.
C2_Witness ==
    /\ clicks = 3
    /\ nightMode
    /\ Len(timers) = 2

\* C3: in both scripts, once a click is handled and its icon update is
\* applied, the (single) control shows the icon and the label of the current
\* marker class: sun and 'Switch to Light Mode' when it is present, moon and
\* 'Switch to Night Mode' when it is absent.
C3_IconAndLabelFollowClick ==
    (Len(controls) = 1 /\ clicks >= 1 /\ Settled) =>
        /\ controls[1].innerHTML = IconFor(nightMode)
        /\ controls[1].title = LabelFor(nightMode)

\* C4: for each script, initialization gives the same result before and
\* after the document-ready signal: no control while the document is
\* loading, and a control once a script has been loaded and the ready signal
\* has been dispatched.
C4_ReadyOrderIrrelevant ==
    /\ readyState = "loading" => controls = <<>>
    /\ (loaded # <<>> /\ dclFired /\ Idle) => controls # <<>>

\* C5: once every pending delayed update has fired after a click, the icon
\* and the label of every control of the generic script match the current
\* marker class.
C5_SettledIconMatches ==
    \A i \in DOMAIN controls :
        (controls[i].script = Generic /\ clicks >= 1 /\ Settled) =>
            /\ controls[i].innerHTML = IconFor(nightMode)
            /\ controls[i].title = LabelFor(nightMode)

\* C6: two clicks (and their icon updates) after initialization are a round
\* trip: the marker class is absent again and the (single) control's icon
\* and label are what they were right after creation, the moon and the
\* 'Switch to Night Mode' label.
C6_TwoClicksRoundTrip ==
    (Len(controls) = 1 /\ clicks = 2 /\ Settled) =>
        /\ ~nightMode
        /\ controls[1].innerHTML = Moon
        /\ controls[1].title = TitleToNight
        /\ controls[1].title =
              (IF controls[1].script = Generic
               THEN NewGenericButton.title ELSE NewThemeButton.title)

\* C7: every control carries the id 'night-mode-toggle' from its creation
\* on, through every click, delayed update, hover and repeated
\* initialization.
C7_IdNeverChanges ==
    \A i \in DOMAIN controls : controls[i].id = ToggleId

\* Both scripts have run, the control was clicked twice and both delayed
\* updates have fired.
C7_Witness ==
    /\ Len(controls) >= 1
    /\ Len(loaded) >= 2
    /\ alreadyExists >= 1
    /\ clicks = 2
    /\ Settled
    /\ controls[1].title = TitleToNight

\* C8: no race from the fire-and-forget delay: whenever the icon of a
\* control of the generic script disagrees with the marker class, a delayed
\* update of that control is still pending.
C8_StaleIconHasPendingUpdate ==
    \A i \in DOMAIN controls :
        (controls[i].script = Generic
            /\ controls[i].innerHTML # IconFor(nightMode)) =>
                \E k \in DOMAIN timers : timers[k] = i

\* C9: a call of createToggle while an element with the id
\* 'night-mode-toggle' exists creates nothing and leaves every control
\* (icon, label, handlers), the marker class and the pending updates as
\* they are.
C9_RepeatedCreateToggleNoOp ==
    [][(CallsCreateToggle /\ getElementById(controls, ToggleId) # 0) =>
          UNCHANGED <<controls, nightMode, timers>>]_vars

\* createToggle has found the control of the generic script, and the page
\* is in night mode with the sun icon shown.
C9_Witness ==
    /\ alreadyExists >= 1
    /\ Len(controls) = 1
    /\ controls[1].script = Generic
    /\ controls[1].innerHTML = Sun
    /\ nightMode

\* C10: the marker class is absent on a fresh page and changes only by a
\* click, each click flipping it: script loads, the ready signal, listener
\* calls, hovers and delayed icon updates leave it as it is.
C10_OnlyClickFlips ==
    /\ ~nightMode
    /\ [][/\ (clicks' = clicks + 1) => (nightMode' = ~nightMode)
          /\ (clicks' = clicks) => (nightMode' = nightMode)]_vars

\* In night mode after one click, with the update fired, a hover in
\* progress and a repeated initialization done.
C10_Witness ==
    /\ clicks = 1
    /\ nightMode
    /\ Settled
    /\ Len(loaded) >= 2
    /\ \E i \in DOMAIN controls : controls[i].background = ColorHover

====
